---------------------------- MODULE Spec2Model ----------------------------
(***************************************************************************)
(* A model of guild_manager.cog.DefaultManager: the leave criteria, the    *)
(* guild-join listener and the periodic guild check.                       *)
(*                                                                         *)
(* Tasks are coroutines on one event loop.  A task's pc names the await at *)
(* which it is suspended; one action resumes a task and runs it to its     *)
(* next await, so other tasks interleave exactly at the awaits.            *)
(***************************************************************************)
EXTENDS Integers, Sequences, FiniteSets, TLC

\* ------------------------------------------------------------------ bounds
\* Guild ids the gateway may deliver.
NumGuilds == 3
\* Guild ids the gateway may deliver to a manager that runs the loop.
LoopGuilds == 2
\* Largest member_count / member threshold considered.
MaxCount == 2
\* Longest cached member list (guild.members) considered.
MaxList == 2
\* Largest guild age (utcnow() - created_at), in whole time units.
MaxAge == 2
\* Largest denominator of a max_bot_ratio fraction.
MaxDen == 2
\* Largest max_guilds considered.
MaxCap == 2

\* ------------------------------------------------------------ optionals
\* Python's Optional[T]: None is the empty set, a value x is {x}.
None == {}
Some(x) == {x}
Val(o) == CHOOSE x \in o : TRUE
Opt(S) == {None} \cup {Some(x) : x \in S}

Guilds == 1..NumGuilds

VARIABLES
    cfg,      \* the manager's attributes set by __init__
    ev,       \* one leave_criteria call followed step by step
    loaded,   \* the cog's lifecycle: "init", "loaded", "unloaded"
    member,   \* guild -> the bot's membership of the guild
    join,     \* guild -> the _on_guild_join task of the guild
    sweep     \* the _check_guilds loop task

vars == <<cfg, ev, loaded, member, join, sweep>>

\* ------------------------------------------------------------- the data
\* max_bot_ratio as an exact fraction <<num, den>> in [0, 1].
Ratios == {r \in (0..MaxDen) \X (1..MaxDen) : r[1] <= r[2]}

\* The attributes __init__ stores (frequency: None or a number of seconds).
Configs ==
    [max_guilds : 1..MaxCap,
     min_members : Opt(0..MaxCount),
     max_members : Opt(0..MaxCount),
     max_bot_ratio : Opt(Ratios),
     min_guild_age : Opt(1..MaxAge),
     frequency : Opt({1})]

\* Cached member lists: one bot flag per member.
MemberLists == UNION {[1..n -> BOOLEAN] : n \in 0..MaxList}

\* What leave_criteria reads of a discord.Guild: age stands for
\* utcnow() - created_at.
Snapshots ==
    [age : 0..MaxAge,
     member_count : Opt(0..MaxCount),
     members : MemberLists]

\* sum(m.bot for m in guild.members)
RECURSIVE SumBots(_)
SumBots(ms) ==
    IF ms = <<>> THEN 0
    ELSE (IF ms[Len(ms)] THEN 1 ELSE 0) + SumBots(SubSeq(ms, 1, Len(ms) - 1))

\* ------------------------------------------------ the built-in criteria
\* Each check's outcome: "unset" (the attribute is None, nothing is
\* evaluated), "unknown" (member_count is None: a warning, no verdict),
\* "reject" (return True), "pass" (fall through), "raise" (an exception).

min_guild_age_check(c, g) ==
    IF c.min_guild_age = None THEN "unset"
    ELSE IF g.age > Val(c.min_guild_age) THEN "reject"
    ELSE "pass"

\* A variant: an unknown member_count counted as 0,
\* `(guild.member_count or 0) < self.min_members`.
min_members_check_none_as_zero(c, g) ==
    IF c.min_members = None THEN "unset"
    ELSE IF (IF g.member_count = None THEN 0 ELSE Val(g.member_count)) < Val(c.min_members)
         THEN "reject"
    ELSE "pass"

min_members_check(c, g) ==
    IF c.min_members = None THEN "unset"
    ELSE IF g.member_count = None THEN "unknown"
    ELSE IF Val(g.member_count) < Val(c.min_members) THEN "reject"
    ELSE "pass"

\* A variant: `>=` for `>`.
max_members_check_non_strict(c, g) ==
    IF c.max_members = None THEN "unset"
    ELSE IF g.member_count = None THEN "unknown"
    ELSE IF Val(g.member_count) >= Val(c.max_members) THEN "reject"
    ELSE "pass"

max_members_check(c, g) ==
    IF c.max_members = None THEN "unset"
    ELSE IF g.member_count = None THEN "unknown"
    ELSE IF Val(g.member_count) > Val(c.max_members) THEN "reject"
    ELSE "pass"

\* bots / guild.member_count > self.max_bot_ratio, in exact arithmetic:
\* bots / n > p / q  iff  bots * q > p * n  (n, q > 0).  Division by a
\* member_count of 0 raises ZeroDivisionError.
\* A variant: `>=` for `>`.
max_bot_ratio_check_non_strict(c, g) ==
    IF c.max_bot_ratio = None THEN "unset"
    ELSE IF g.member_count = None THEN "unknown"
    ELSE IF Val(g.member_count) = 0 THEN "raise"
    ELSE IF SumBots(g.members) * Val(c.max_bot_ratio)[2]
                >= Val(c.max_bot_ratio)[1] * Val(g.member_count) THEN "reject"
    ELSE "pass"

max_bot_ratio_check(c, g) ==
    IF c.max_bot_ratio = None THEN "unset"
    ELSE IF g.member_count = None THEN "unknown"
    ELSE IF Val(g.member_count) = 0 THEN "raise"
    ELSE IF SumBots(g.members) * Val(c.max_bot_ratio)[2]
                > Val(c.max_bot_ratio)[1] * Val(g.member_count) THEN "reject"
    ELSE "pass"

\* A variant: the member-count checks moved before the age check.
BuiltinOrder_members_first == <<"min_members", "max_members", "min_guild_age", "max_bot_ratio">>

\* The order of the if statements of leave_criteria after the whitelist.
BuiltinOrder == <<"min_guild_age", "min_members", "max_members", "max_bot_ratio">>

Check(name, c, g) ==
    CASE name = "min_guild_age" -> min_guild_age_check(c, g)
      [] name = "min_members" -> min_members_check(c, g)
      [] name = "max_members" -> max_members_check(c, g)
      [] name = "max_bot_ratio" -> max_bot_ratio_check(c, g)

\* The synchronous stretch of leave_criteria between the two hooks, from
\* the i-th check on: which checks were evaluated (trace) and how it ended:
\* "reject", "raise", or "continue" (on to extra_criteria).
RECURSIVE Builtin(_, _, _, _)
Builtin(c, g, i, trace) ==
    IF i > Len(BuiltinOrder) THEN [outcome |-> "continue", trace |-> trace]
    ELSE LET name == BuiltinOrder[i]
             o == Check(name, c, g)
         IN  IF o = "unset" THEN Builtin(c, g, i + 1, trace)
             ELSE IF o \in {"reject", "raise"}
                  THEN [outcome |-> o, trace |-> Append(trace, <<name, o>>)]
             ELSE Builtin(c, g, i + 1, Append(trace, <<name, o>>))

\* A variant: the whitelist consulted only after the built-in checks.
AfterWhitelisted_whitelist_last(c, g, wl) ==
    LET b == Builtin(c, g, 1, <<>>)
    IN  IF b.outcome = "reject" THEN [outcome |-> "True", trace |-> b.trace]
        ELSE IF b.outcome = "raise" THEN [outcome |-> "raise", trace |-> b.trace]
        ELSE IF wl THEN [outcome |-> "False", trace |-> <<>>]
        ELSE [outcome |-> "extra_criteria", trace |-> b.trace]

\* leave_criteria resumed with whitelisted's result wl: "False" (return
\* False), "True" (return True), "raise", or "extra_criteria" (awaiting it).
AfterWhitelisted(c, g, wl) ==
    IF wl THEN [outcome |-> "False", trace |-> <<>>]
    ELSE LET b == Builtin(c, g, 1, <<>>)
         IN  [outcome |-> CASE b.outcome = "reject" -> "True"
                            [] b.outcome = "raise" -> "raise"
                            [] b.outcome = "continue" -> "extra_criteria",
              trace |-> b.trace]

\* leave_criteria resumed with extra_criteria's result: the verdict.
AfterExtra(x) == IF x THEN "True" ELSE "False"

\* The loop task outside a pass: the pass's locals do not exist.
SweepIdle(pc) == [pc |-> pc, list |-> <<>>, idx |-> 0, visited |-> <<>>, log |-> <<>>]

\* ---------------------------------------- one leave_criteria call (ev)
\* ev.pc: "call" (not yet called), "whitelisted" / "extra_criteria"
\* (awaiting the hook), "return" (ev.result is the verdict), "raised".
EvIdle == [pc |-> "idle", guild |-> [age |-> 0, member_count |-> None, members |-> <<>>],
           trace |-> <<>>, wl |-> "none", extra |-> "none", result |-> "none"]

\* leave_criteria reads neither max_guilds nor frequency.
CriteriaConfigs == {c \in Configs : c.max_guilds = 1 /\ c.frequency = None}

EvInit ==
    /\ cfg \in CriteriaConfigs
    /\ \E g \in Snapshots :
         ev = [pc |-> "call", guild |-> g, trace |-> <<>>,
               wl |-> "none", extra |-> "none", result |-> "none"]
    /\ loaded = "init"
    /\ member = [g \in Guilds |-> "unknown"]
    /\ join = [g \in Guilds |-> [pc |-> "none", log |-> <<>>]]
    /\ sweep = SweepIdle("unstarted")

BoolStr(b) == IF b THEN "True" ELSE "False"

\* await maybe_coroutine(self.whitelisted, guild): the hook is invoked.
EvCall ==
    /\ ev.pc = "call"
    /\ ev' = [ev EXCEPT !.pc = "whitelisted",
                        !.trace = Append(@, <<"whitelisted", "invoked">>)]
    /\ UNCHANGED <<cfg, loaded, member, join, sweep>>

\* whitelisted returns wl; the built-in checks run; extra_criteria is
\* invoked unless something decided.
EvWhitelisted ==
    /\ ev.pc = "whitelisted"
    /\ \E wl \in BOOLEAN :
         LET r == AfterWhitelisted(cfg, ev.guild, wl)
         IN  ev' = [ev EXCEPT
                 !.wl = BoolStr(wl),
                 !.pc = CASE r.outcome = "extra_criteria" -> "extra_criteria"
                          [] r.outcome = "raise" -> "raised"
                          [] OTHER -> "return",
                 !.result = IF r.outcome \in {"True", "False"} THEN r.outcome ELSE "none",
                 !.trace = IF r.outcome = "extra_criteria"
                           THEN @ \o r.trace \o <<(<<"extra_criteria", "invoked">>)>>
                           ELSE @ \o r.trace]
    /\ UNCHANGED <<cfg, loaded, member, join, sweep>>

\* extra_criteria returns x, which leave_criteria returns.
EvExtra ==
    /\ ev.pc = "extra_criteria"
    /\ \E x \in BOOLEAN :
         ev' = [ev EXCEPT !.extra = BoolStr(x), !.pc = "return", !.result = AfterExtra(x)]
    /\ UNCHANGED <<cfg, loaded, member, join, sweep>>

EvNext == EvCall \/ EvWhitelisted \/ EvExtra

\* leave_criteria applied to every configuration and snapshot in the bounds.
SpecCriteria == EvInit /\ [][EvNext]_vars

\* ------------------------------------------------------------ the system
\* member[g]: "unknown" (never joined), "joined", "leaving" (guild.leave()
\* succeeded; the guild stays in the cache until the gateway's GUILD_DELETE
\* is processed), "left".
\* self.bot.guilds: the guilds in the client's cache.
BotGuilds == {g \in Guilds : member[g] \in {"joined", "leaving"}}

\* The cache enumerated (here: by ascending id).
RECURSIVE Enumerate(_)
Enumerate(S) ==
    IF S = {} THEN <<>>
    ELSE LET m == CHOOSE x \in S : \A y \in S : x <= y
         IN  <<m>> \o Enumerate(S \ {m})

\* The criteria attributes the system is run with: every criterion set, so
\* that each outcome of leave_criteria occurs (every max_guilds, with and
\* without a frequency).
SystemConfigs ==
    {c \in Configs :
        /\ c.min_members = Some(1) /\ c.max_members = Some(MaxCount)
        /\ c.max_bot_ratio = Some(<<1, MaxDen>>) /\ c.min_guild_age = Some(1)}

\* The guilds the bot may be added to: every id for a manager without a
\* frequency, the first LoopGuilds ids for one that runs the loop.
Invitable == IF cfg.frequency = None THEN Guilds ELSE 1..LoopGuilds

\* A newly joined guild always has member_count (GUILD_CREATE carries it).
JoinSnapshots == {s \in Snapshots : s.member_count # None}

Init ==
    /\ cfg \in SystemConfigs
    /\ ev = EvIdle
    /\ loaded = "init"
    /\ member = [g \in Guilds |-> "unknown"]
    /\ join = [g \in Guilds |-> [pc |-> "none", log |-> <<>>]]
    /\ sweep = SweepIdle("unstarted")

NewStr(new) == IF new THEN "new=True" ELSE "new=False"

\* A variant: before_leave left out, `if ...: await guild.leave()`.
CriteriaStep_no_before_leave(c, s, wl, new) ==
    LET r == AfterWhitelisted(c, s, wl)
    IN  CASE r.outcome = "False" ->
               [pc |-> "skip", log |-> <<(<<"leave_criteria", "False">>)>>]
          [] r.outcome = "True" ->
               [pc |-> "leave",
                log |-> <<(<<"leave_criteria", "True">>), (<<"leave", "called">>)>>]
          [] r.outcome = "raise" ->
               [pc |-> "raised", log |-> <<(<<"leave_criteria", "raise">>)>>]
          [] r.outcome = "extra_criteria" ->
               [pc |-> "extra_criteria", log |-> <<(<<"extra_criteria", "invoked">>)>>]

\* What follows the await of whitelisted in a task that called
\* leave_criteria(guild) as `if await self.leave_criteria(guild):`, with
\* the snapshot s read at that moment: the next pc and the log entries.
\* "skip" stands for leave_criteria returning False (the if body is skipped).
CriteriaStep(c, s, wl, new) ==
    LET r == AfterWhitelisted(c, s, wl)
    IN  CASE r.outcome = "False" ->
               [pc |-> "skip", log |-> <<(<<"leave_criteria", "False">>)>>]
          [] r.outcome = "True" ->
               [pc |-> "before_leave",
                log |-> <<(<<"leave_criteria", "True">>), (<<"before_leave", NewStr(new)>>)>>]
          [] r.outcome = "raise" ->
               [pc |-> "raised", log |-> <<(<<"leave_criteria", "raise">>)>>]
          [] r.outcome = "extra_criteria" ->
               [pc |-> "extra_criteria", log |-> <<(<<"extra_criteria", "invoked">>)>>]

\* Every way the await of whitelisted can go on, by configuration: in the
\* listener (a new guild) and in the loop (any guild of the cache).
JoinSteps ==
    [c \in SystemConfigs |->
        {CriteriaStep(c, s, wl, TRUE) : s \in JoinSnapshots, wl \in BOOLEAN}]

SweepSteps ==
    [c \in SystemConfigs |->
        {CriteriaStep(c, s, wl, FALSE) : s \in Snapshots, wl \in BOOLEAN}]

\* The same after the await of extra_criteria, which returned x.
ExtraStep(x, new) ==
    IF AfterExtra(x) = "True"
    THEN [pc |-> "before_leave",
          log |-> <<(<<"leave_criteria", "True">>), (<<"before_leave", NewStr(new)>>)>>]
    ELSE [pc |-> "skip", log |-> <<(<<"leave_criteria", "False">>)>>]

\* ------------------------------------------------------ the gateway
\* GUILD_CREATE for a guild the bot was added to: the guild enters the
\* cache and on_guild_join is dispatched to the listener of a loaded cog.
GuildJoin(g) ==
    /\ member[g] = "unknown"
    /\ member' = [member EXCEPT ![g] = "joined"]
    /\ join' = IF loaded = "loaded"
               THEN [join EXCEPT ![g].pc = "pending"]
               ELSE join
    /\ UNCHANGED <<cfg, ev, loaded, sweep>>

\* GUILD_DELETE after a leave: the guild goes from the cache.
GuildDelete(g) ==
    /\ member[g] = "leaving"
    /\ member' = [member EXCEPT ![g] = "left"]
    /\ UNCHANGED <<cfg, ev, loaded, join, sweep>>

\* -------------------------------------------------- _on_guild_join
\* A variant: `>` for `>=` in the cap test.
JoinStart_strict_cap(g) ==
    /\ join[g].pc = "pending"
    /\ join' = [join EXCEPT ![g] =
         IF Cardinality(BotGuilds) > cfg.max_guilds
         THEN [pc |-> "on_guild_limit_reached",
               log |-> Append(@.log, <<"on_guild_limit_reached", "invoked">>)]
         ELSE [pc |-> "whitelisted",
               log |-> Append(@.log, <<"whitelisted", "invoked">>)]]
    /\ UNCHANGED <<cfg, ev, loaded, member, sweep>>

\* The listener task starts: the cap test, then the first await.
JoinStart(g) ==
    /\ join[g].pc = "pending"
    /\ join' = [join EXCEPT ![g] =
         IF Cardinality(BotGuilds) >= cfg.max_guilds
         THEN [pc |-> "on_guild_limit_reached",
               log |-> Append(@.log, <<"on_guild_limit_reached", "invoked">>)]
         ELSE [pc |-> "whitelisted",
               log |-> Append(@.log, <<"whitelisted", "invoked">>)]]
    /\ UNCHANGED <<cfg, ev, loaded, member, sweep>>

\* on_guild_limit_reached returns: await guild.leave().
JoinLimitReached(g) ==
    /\ join[g].pc = "on_guild_limit_reached"
    /\ join' = [join EXCEPT ![g] =
         [pc |-> "leave", log |-> Append(@.log, <<"leave", "called">>)]]
    /\ UNCHANGED <<cfg, ev, loaded, member, sweep>>

JoinSettle(g, step) ==
    join' = [join EXCEPT ![g] =
         [pc |-> IF step.pc = "skip" THEN "done" ELSE step.pc,
          log |-> @.log \o step.log]]

\* whitelisted returns inside leave_criteria.
JoinWhitelisted(g) ==
    /\ join[g].pc = "whitelisted"
    /\ \E step \in JoinSteps[cfg] : JoinSettle(g, step)
    /\ UNCHANGED <<cfg, ev, loaded, member, sweep>>

\* extra_criteria returns inside leave_criteria.
JoinExtra(g) ==
    /\ join[g].pc = "extra_criteria"
    /\ \E x \in BOOLEAN : JoinSettle(g, ExtraStep(x, TRUE))
    /\ UNCHANGED <<cfg, ev, loaded, member, sweep>>

\* before_leave returns: await guild.leave().
JoinBeforeLeave(g) ==
    /\ join[g].pc = "before_leave"
    /\ join' = [join EXCEPT ![g] =
         [pc |-> "leave", log |-> Append(@.log, <<"leave", "called">>)]]
    /\ UNCHANGED <<cfg, ev, loaded, member, sweep>>

\* guild.leave() completes: the bot is out of the guild and after_leave is
\* invoked, or the request fails (always, when the bot is no longer a
\* member) and the exception leaves the listener.
LeaveOutcomes(g) == IF member[g] = "joined" THEN {"ok", "raised"} ELSE {"raised"}

\* A variant: after_leave in a finally clause, invoked after a failed
\* guild.leave() as well.
JoinLeave_finally(g) ==
    /\ join[g].pc = "leave"
    /\ \E o \in LeaveOutcomes(g) :
         IF o = "ok"
         THEN /\ member' = [member EXCEPT ![g] = "leaving"]
              /\ join' = [join EXCEPT ![g] =
                   [pc |-> "after_leave",
                    log |-> @.log \o <<(<<"leave", "ok">>), (<<"after_leave", NewStr(TRUE)>>)>>]]
         ELSE /\ member' = member
              /\ join' = [join EXCEPT ![g] =
                   [pc |-> "after_leave",
                    log |-> @.log \o <<(<<"leave", "raised">>), (<<"after_leave", NewStr(TRUE)>>)>>]]
    /\ UNCHANGED <<cfg, ev, loaded, sweep>>

JoinLeave(g) ==
    /\ join[g].pc = "leave"
    /\ \E o \in LeaveOutcomes(g) :
         IF o = "ok"
         THEN /\ member' = [member EXCEPT ![g] = "leaving"]
              /\ join' = [join EXCEPT ![g] =
                   [pc |-> "after_leave",
                    log |-> @.log \o <<(<<"leave", "ok">>), (<<"after_leave", NewStr(TRUE)>>)>>]]
         ELSE /\ member' = member
              /\ join' = [join EXCEPT ![g] =
                   [pc |-> "raised", log |-> Append(@.log, <<"leave", "raised">>)]]
    /\ UNCHANGED <<cfg, ev, loaded, sweep>>

\* after_leave returns: the listener is over.
JoinAfterLeave(g) ==
    /\ join[g].pc = "after_leave"
    /\ join' = [join EXCEPT ![g].pc = "done"]
    /\ UNCHANGED <<cfg, ev, loaded, member, sweep>>

\* ------------------------------------------------- cog_load / cog_unload
\* A variant: cog_load without the start().
CogLoad_no_start ==
    /\ loaded = "init"
    /\ loaded' = "loaded"
    /\ UNCHANGED <<cfg, ev, member, join, sweep>>

\* cog_load: with a frequency, the loop task is started; its first pass
\* may begin at once.
CogLoad ==
    /\ loaded = "init"
    /\ loaded' = "loaded"
    /\ sweep' = IF cfg.frequency # None THEN SweepIdle("waiting") ELSE sweep
    /\ UNCHANGED <<cfg, ev, member, join>>

\* A variant: cog_unload without the cancel().
CogUnload_no_cancel ==
    /\ loaded = "loaded"
    /\ loaded' = "unloaded"
    /\ UNCHANGED <<cfg, ev, member, join, sweep>>

\* cog_unload: with a frequency, the loop task is cancelled wherever it is
\* (a task that already ended with an exception stays ended).
CogUnload ==
    /\ loaded = "loaded"
    /\ loaded' = "unloaded"
    /\ sweep' = IF cfg.frequency # None /\ sweep.pc # "raised"
                THEN SweepIdle("cancelled")
                ELSE sweep
    /\ UNCHANGED <<cfg, ev, member, join>>

\* ------------------------------------------------------ _check_guilds
\* The guild of the current iteration of `for guild in self.bot.guilds`.
SweepGuild == sweep.list[sweep.idx]

Tag(log, g) == [i \in 1..Len(log) |-> <<log[i][1], log[i][2], g>>]

\* The loop statement moves to the i-th guild of the enumeration: its
\* leave_criteria is called (whitelisted is awaited), or the pass is over.
\* sweep.log is the log of the current iteration; sweep.visited lists the
\* guilds of the pass whose iteration is over.
SweepEnter(list, i, visited) ==
    IF i > Len(list)
    THEN SweepIdle("waiting")
    ELSE [pc |-> "whitelisted", list |-> list, idx |-> i, visited |-> visited,
          log |-> <<(<<"whitelisted", "invoked", list[i]>>)>>]

\* A pass begins: self.bot.guilds is enumerated.
SweepStart ==
    /\ sweep.pc = "waiting"
    /\ sweep' = SweepEnter(Enumerate(BotGuilds), 1, <<>>)
    /\ UNCHANGED <<cfg, ev, loaded, member, join>>

\* A variant: the cap applied in the loop, a guild that passes the criteria
\* left while the guild count is at max_guilds.
SweepSettle_with_cap(step) ==
    sweep' = IF step.pc = "skip" /\ Cardinality(BotGuilds) >= cfg.max_guilds
             THEN [sweep EXCEPT !.pc = "leave",
                                !.log = @ \o Tag(step.log, SweepGuild)
                                          \o <<(<<"leave", "called", SweepGuild>>)>>]
             ELSE IF step.pc = "skip"
             THEN SweepEnter(sweep.list, sweep.idx + 1, Append(sweep.visited, SweepGuild))
             ELSE [sweep EXCEPT !.pc = step.pc, !.log = @ \o Tag(step.log, SweepGuild)]

SweepSettle(step) ==
    sweep' = IF step.pc = "skip"
             THEN SweepEnter(sweep.list, sweep.idx + 1, Append(sweep.visited, SweepGuild))
             ELSE [sweep EXCEPT !.pc = step.pc, !.log = @ \o Tag(step.log, SweepGuild)]

\* whitelisted returns inside leave_criteria.
SweepWhitelisted ==
    /\ sweep.pc = "whitelisted"
    /\ \E step \in SweepSteps[cfg] : SweepSettle(step)
    /\ UNCHANGED <<cfg, ev, loaded, member, join>>

\* extra_criteria returns inside leave_criteria.
SweepExtra ==
    /\ sweep.pc = "extra_criteria"
    /\ \E x \in BOOLEAN : SweepSettle(ExtraStep(x, FALSE))
    /\ UNCHANGED <<cfg, ev, loaded, member, join>>

\* before_leave returns: await guild.leave().
SweepBeforeLeave ==
    /\ sweep.pc = "before_leave"
    /\ sweep' = [sweep EXCEPT !.pc = "leave",
                              !.log = Append(@, <<"leave", "called", SweepGuild>>)]
    /\ UNCHANGED <<cfg, ev, loaded, member, join>>

\* A variant: the failure of guild.leave() caught inside the loop body, the
\* pass going on with the next guild.
SweepLeave_isolated ==
    /\ sweep.pc = "leave"
    /\ \E o \in LeaveOutcomes(SweepGuild) :
         IF o = "ok"
         THEN /\ member' = [member EXCEPT ![SweepGuild] = "leaving"]
              /\ sweep' = [sweep EXCEPT
                   !.pc = "after_leave",
                   !.log = @ \o <<(<<"leave", "ok", SweepGuild>>),
                                  (<<"after_leave", NewStr(FALSE), SweepGuild>>)>>]
         ELSE /\ member' = member
              /\ sweep' = SweepEnter(sweep.list, sweep.idx + 1,
                                     Append(sweep.visited, SweepGuild))
    /\ UNCHANGED <<cfg, ev, loaded, join>>

\* A variant: after_leave called without new=False.
SweepLeave_new_default ==
    /\ sweep.pc = "leave"
    /\ \E o \in LeaveOutcomes(SweepGuild) :
         IF o = "ok"
         THEN /\ member' = [member EXCEPT ![SweepGuild] = "leaving"]
              /\ sweep' = [sweep EXCEPT
                   !.pc = "after_leave",
                   !.log = @ \o <<(<<"leave", "ok", SweepGuild>>),
                                  (<<"after_leave", NewStr(TRUE), SweepGuild>>)>>]
         ELSE /\ member' = member
              /\ sweep' = [sweep EXCEPT
                   !.pc = "raised",
                   !.log = Append(@, <<"leave", "raised", SweepGuild>>)]
    /\ UNCHANGED <<cfg, ev, loaded, join>>

\* guild.leave() completes, or fails and ends the loop task.
SweepLeave ==
    /\ sweep.pc = "leave"
    /\ \E o \in LeaveOutcomes(SweepGuild) :
         IF o = "ok"
         THEN /\ member' = [member EXCEPT ![SweepGuild] = "leaving"]
              /\ sweep' = [sweep EXCEPT
                   !.pc = "after_leave",
                   !.log = @ \o <<(<<"leave", "ok", SweepGuild>>),
                                  (<<"after_leave", NewStr(FALSE), SweepGuild>>)>>]
         ELSE /\ member' = member
              /\ sweep' = [sweep EXCEPT
                   !.pc = "raised",
                   !.log = Append(@, <<"leave", "raised", SweepGuild>>)]
    /\ UNCHANGED <<cfg, ev, loaded, join>>

\* after_leave returns: on to the next guild.
SweepAfterLeave ==
    /\ sweep.pc = "after_leave"
    /\ sweep' = SweepEnter(sweep.list, sweep.idx + 1, Append(sweep.visited, SweepGuild))
    /\ UNCHANGED <<cfg, ev, loaded, member, join>>

Next ==
    \/ CogLoad
    \/ CogUnload
    \/ \E g \in Invitable : GuildJoin(g)
    \/ \E g \in Guilds : GuildDelete(g)
    \/ \E g \in Guilds : JoinStart(g)
    \/ \E g \in Guilds : JoinLimitReached(g)
    \/ \E g \in Guilds : JoinWhitelisted(g)
    \/ \E g \in Guilds : JoinExtra(g)
    \/ \E g \in Guilds : JoinBeforeLeave(g)
    \/ \E g \in Guilds : JoinLeave(g)
    \/ \E g \in Guilds : JoinAfterLeave(g)
    \/ SweepStart
    \/ SweepWhitelisted
    \/ SweepExtra
    \/ SweepBeforeLeave
    \/ SweepLeave
    \/ SweepAfterLeave

Spec == Init /\ [][Next]_vars

\* ------------------------------------------- guilds of a fixed kind
\* Runs in which some guilds keep one answer of leave_criteria's inputs:
\* "whitelisted" (the whitelisted hook returns True for the guild at every
\* call), "rejected" (whitelisted returns False and the guild's data meets
\* a built-in criterion at every call), "any" (nothing fixed).
Kinds == {"any", "whitelisted", "rejected"}

KindOutcomes(c, new, kind) ==
    LET snaps == IF new THEN JoinSnapshots ELSE Snapshots
    IN  CASE kind = "any" ->
               {CriteriaStep(c, s, wl, new) : s \in snaps, wl \in BOOLEAN}
          [] kind = "whitelisted" ->
               {CriteriaStep(c, s, TRUE, new) : s \in snaps}
          [] kind = "rejected" ->
               {CriteriaStep(c, s, FALSE, new) :
                   s \in {t \in snaps : Builtin(c, t, 1, <<>>).outcome = "reject"}}

\* The same as a table: configuration, new, kind, step.
KindTable ==
    UNION {{<<k[1], k[2], k[3], step>> : step \in KindOutcomes(k[1], k[2], k[3])} :
              k \in SystemConfigs \X BOOLEAN \X Kinds}

KindSteps(c, new, kind) ==
    {p[4] : p \in {q \in KindTable : q[1] = c /\ q[2] = new /\ q[3] = kind}}

\* whitelisted returns inside leave_criteria, for a guild of the kind.
JoinWhitelistedAs(g, kind) ==
    /\ join[g].pc = "whitelisted"
    /\ \E step \in KindSteps(cfg, TRUE, kind) : JoinSettle(g, step)
    /\ UNCHANGED <<cfg, ev, loaded, member, sweep>>

SweepWhitelistedAs(kind) ==
    /\ sweep.pc = "whitelisted"
    /\ \E step \in KindSteps(cfg, FALSE, kind) : SweepSettle(step)
    /\ UNCHANGED <<cfg, ev, loaded, member, join>>

\* What every run shares: all of Next but the two returns of whitelisted.
NextButWhitelisted ==
    \/ CogLoad
    \/ CogUnload
    \/ \E g \in Invitable : GuildJoin(g)
    \/ \E g \in Guilds : GuildDelete(g)
    \/ \E g \in Guilds : JoinStart(g)
    \/ \E g \in Guilds : JoinLimitReached(g)
    \/ \E g \in Guilds : JoinExtra(g)
    \/ \E g \in Guilds : JoinBeforeLeave(g)
    \/ \E g \in Guilds : JoinLeave(g)
    \/ \E g \in Guilds : JoinAfterLeave(g)
    \/ SweepStart
    \/ SweepExtra
    \/ SweepBeforeLeave
    \/ SweepLeave
    \/ SweepAfterLeave

\* The guilds the whitelisted hook of the run answers True for.
Whitelist == {1}

WhitelistKind(g) == IF g \in Whitelist THEN "whitelisted" ELSE "any"

NextWhitelist ==
    \/ NextButWhitelisted
    \/ \E g \in Guilds : JoinWhitelistedAs(g, WhitelistKind(g))
    \/ sweep.pc = "whitelisted" /\ SweepWhitelistedAs(WhitelistKind(SweepGuild))

\* The system with a whitelisted hook that whitelists the guilds of
\* Whitelist, whatever their data.
SpecWhitelist == Init /\ [][NextWhitelist]_vars

\* ----------------------------------------------- the loop, scheduled
\* The guilds that are not whitelisted and whose data meets a built-in
\* criterion whenever leave_criteria reads it.
Rejected == {1}

RejectedKind(g) == IF g \in Rejected THEN "rejected" ELSE "any"

InitFair == Init /\ cfg.frequency # None

SweepWhitelistedFair ==
    sweep.pc = "whitelisted" /\ SweepWhitelistedAs(RejectedKind(SweepGuild))

\* The cog is loaded and stays loaded: no cog_unload.
NextFair ==
    \/ CogLoad
    \/ \E g \in Invitable : GuildJoin(g)
    \/ \E g \in Guilds : GuildDelete(g)
    \/ \E g \in Guilds : JoinStart(g)
    \/ \E g \in Guilds : JoinLimitReached(g)
    \/ \E g \in Guilds : JoinWhitelistedAs(g, RejectedKind(g))
    \/ \E g \in Guilds : JoinExtra(g)
    \/ \E g \in Guilds : JoinBeforeLeave(g)
    \/ \E g \in Guilds : JoinLeave(g)
    \/ \E g \in Guilds : JoinAfterLeave(g)
    \/ SweepStart
    \/ SweepWhitelistedFair
    \/ SweepExtra
    \/ SweepBeforeLeave
    \/ SweepLeave
    \/ SweepAfterLeave

\* tasks.loop runs a pass every `seconds` for as long as the task lives,
\* the event loop resumes a task whose await has completed, and the hooks
\* and guild.leave() complete: each step of the loop task that stays
\* possible is taken.
SweepFairness ==
    /\ WF_vars(SweepStart)
    /\ WF_vars(SweepWhitelistedFair)
    /\ WF_vars(SweepExtra)
    /\ WF_vars(SweepBeforeLeave)
    /\ WF_vars(SweepLeave)
    /\ WF_vars(SweepAfterLeave)

SpecFair == InitFair /\ [][NextFair]_vars /\ SweepFairness

\* ======================================================== the claims
Range(f) == {f[i] : i \in DOMAIN f}

\* The leave_criteria call has got past the whitelist with the answer no.
NotWhitelisted == ev.wl = "False"

\* ---------------------------------------------------------------- C1
\* C1: for every snapshot and every configuration, whatever extra_criteria
\* would return: if whitelisted(guild) returns true, leave_criteria(guild)
\* returns false.
C1_WhitelistOverrides ==
    ev.wl = "True" => ev.pc = "return" /\ ev.result = "False"

\* A whitelisted guild that the age, the member count and the bot ratio
\* would all reject.
C1_Witness ==
    /\ ev.wl = "True" /\ ev.pc = "return" /\ ev.result = "False"
    /\ min_guild_age_check(cfg, ev.guild) = "reject"
    /\ min_members_check(cfg, ev.guild) = "reject"
    /\ max_bot_ratio_check(cfg, ev.guild) = "reject"

\* ---------------------------------------------------------------- C3
\* C3: with min_guild_age configured and the guild not whitelisted,
\* leave_criteria returns true for a guild younger than min_guild_age
\* (age < min_guild_age), and the min-age criterion does not reject a guild
\* older than min_guild_age (age > min_guild_age).
C3_MinAgeRejectsYounger ==
    (ev.pc = "return" /\ NotWhitelisted /\ cfg.min_guild_age # None) =>
        /\ ev.guild.age < Val(cfg.min_guild_age) => ev.result = "True"
        /\ ev.guild.age > Val(cfg.min_guild_age) =>
               <<"min_guild_age", "reject">> \notin Range(ev.trace)

\* ---------------------------------------------------------------- C4
MemberChecks == {"min_members", "max_members", "max_bot_ratio"}

\* C4: for a snapshot whose member_count is None, with min_guild_age unset:
\* whatever min_members, max_members and max_bot_ratio are, each of them that
\* is configured is evaluated to "unknown" (skipped), none rejects or raises,
\* evaluation reaches extra_criteria, and with extra_criteria returning
\* false leave_criteria returns false.
C4_UnknownCountFailsOpen ==
    (ev.guild.member_count = None /\ cfg.min_guild_age = None /\ NotWhitelisted) =>
        /\ ev.pc \in {"extra_criteria", "return"}
        /\ \A name \in MemberChecks :
             cfg[name] # None <=> <<name, "unknown">> \in Range(ev.trace)
        /\ \A e \in Range(ev.trace) : e[2] \notin {"reject", "raise"}
        /\ <<"extra_criteria", "invoked">> \in Range(ev.trace)
        /\ ev.extra = "False" => ev.pc = "return" /\ ev.result = "False"

\* All three member-count criteria configured, member_count None, verdict
\* False.
C4_Witness ==
    /\ ev.guild.member_count = None /\ cfg.min_guild_age = None
    /\ \A name \in MemberChecks : cfg[name] # None
    /\ ev.wl = "False" /\ ev.extra = "False"
    /\ ev.pc = "return" /\ ev.result = "False"

\* ---------------------------------------------------------------- C5
\* C5: with only min_members and/or max_members configured, a guild that is
\* not whitelisted, has a known member_count, and extra_criteria not
\* returning true: leave_criteria returns true if and only if
\* member_count < min_members (when set) or member_count > max_members
\* (when set); a member_count equal to either bound is not rejected.
C5_MemberBoundsStrict ==
    (/\ ev.pc \notin {"call", "whitelisted", "extra_criteria"}
     /\ NotWhitelisted /\ ev.extra # "True"
     /\ cfg.max_bot_ratio = None /\ cfg.min_guild_age = None
     /\ ev.guild.member_count # None) =>
        /\ ev.pc = "return"
        /\ ev.result = "True" <=>
             \/ cfg.min_members # None
                  /\ Val(ev.guild.member_count) < Val(cfg.min_members)
             \/ cfg.max_members # None
                  /\ Val(ev.guild.member_count) > Val(cfg.max_members)

\* member_count equal to both bounds: not rejected.
C5_Witness ==
    /\ cfg.max_bot_ratio = None /\ cfg.min_guild_age = None
    /\ cfg.min_members # None /\ cfg.max_members # None
    /\ ev.guild.member_count = cfg.min_members
    /\ ev.guild.member_count = cfg.max_members
    /\ ev.wl = "False" /\ ev.extra = "False"
    /\ ev.pc = "return" /\ ev.result = "False"

\* ---------------------------------------------------------------- C6
\* bots / n > p / q over the rationals, n and q positive.
FractionGreater(bots, n, p, q) == bots * q > p * n

\* C6: with only max_bot_ratio configured, a guild that is not whitelisted,
\* has a known positive member_count, and extra_criteria not returning true:
\* leave_criteria returns true if and only if (members flagged as bots) /
\* member_count is strictly greater than max_bot_ratio; a ratio equal to
\* max_bot_ratio is not rejected.
C6_BotRatioStrict ==
    (/\ ev.pc \notin {"call", "whitelisted", "extra_criteria"}
     /\ NotWhitelisted /\ ev.extra # "True"
     /\ cfg.max_bot_ratio # None
     /\ cfg.min_members = None /\ cfg.max_members = None /\ cfg.min_guild_age = None
     /\ ev.guild.member_count # None /\ Val(ev.guild.member_count) > 0) =>
        /\ ev.pc = "return"
        /\ ev.result = "True" <=>
             FractionGreater(Cardinality({i \in DOMAIN ev.guild.members : ev.guild.members[i]}),
                             Val(ev.guild.member_count),
                             Val(cfg.max_bot_ratio)[1], Val(cfg.max_bot_ratio)[2])

\* One bot among two members with max_bot_ratio 1/2: not rejected.
C6_Witness ==
    /\ cfg.max_bot_ratio = Some(<<1, 2>>)
    /\ cfg.min_members = None /\ cfg.max_members = None /\ cfg.min_guild_age = None
    /\ ev.guild.member_count = Some(2)
    /\ Cardinality({i \in DOMAIN ev.guild.members : ev.guild.members[i]}) = 1
    /\ ev.wl = "False" /\ ev.extra = "False"
    /\ ev.pc = "return" /\ ev.result = "False"

\* ---------------------------------------------------------------- C7
\* The documented order of the checks.
DocumentedOrder ==
    <<"whitelisted", "min_guild_age", "min_members", "max_members", "max_bot_ratio",
      "extra_criteria">>

Position(name) == CHOOSE i \in DOMAIN DocumentedOrder : DocumentedOrder[i] = name

\* C7: within one leave_criteria call the checks run in the order whitelist,
\* min age, min members, max members, bot ratio, extra criteria, each at most
\* once, and stop at the first that decides: whitelisted is invoked first
\* and once; nothing follows a whitelist hit, a rejection or a raise; when
\* the min-age check rejects no member-count check is evaluated;
\* extra_criteria is invoked only when the guild is not whitelisted and no
\* built-in check rejected, after every configured check, and its result is
\* the verdict.
C7_CheckOrder ==
    LET t == ev.trace
        names == {e[1] : e \in Range(t)}
    IN  /\ ev.pc \notin {"idle", "call"} => t # <<>> /\ t[1] = <<"whitelisted", "invoked">>
        /\ \A i, j \in DOMAIN t : i < j => Position(t[i][1]) < Position(t[j][1])
        /\ \A i \in DOMAIN t : t[i][2] \in {"reject", "raise"} => i = Len(t)
        /\ ev.wl = "True" => t = <<(<<"whitelisted", "invoked">>)>>
        /\ <<"min_guild_age", "reject">> \in Range(t) => names \cap MemberChecks = {}
        /\ "extra_criteria" \in names =>
             /\ ev.wl = "False"
             /\ \A e \in Range(t) : e[2] # "reject"
             /\ \A name \in MemberChecks \cup {"min_guild_age"} :
                  cfg[name] # None => name \in names
        /\ ev.extra # "none" => "extra_criteria" \in names /\ ev.pc = "return" /\ ev.result = ev.extra
        /\ ev.result = "True" /\ ev.extra = "none" => t[Len(t)][2] = "reject"

\* A guild failing both the min-age and the min-members criteria: the age
\* check decides and min_members is not evaluated.
C7_Witness ==
    /\ ev.trace = <<(<<"whitelisted", "invoked">>), (<<"min_guild_age", "reject">>)>>
    /\ min_members_check(cfg, ev.guild) = "reject"
    /\ ev.pc = "return" /\ ev.result = "True"

\* ------------------------------------------------- the order of calls
IsPrefix(p, t) == Len(p) <= Len(t) /\ SubSeq(t, 1, Len(p)) = p

\* What _on_guild_join logs on the cap path: with guild.leave() succeeding,
\* and with it raising.
CapLog ==
    <<(<<"on_guild_limit_reached", "invoked">>), (<<"leave", "called">>),
      (<<"leave", "ok">>), (<<"after_leave", "new=True">>)>>

CapLogRaised ==
    <<(<<"on_guild_limit_reached", "invoked">>), (<<"leave", "called">>),
      (<<"leave", "raised">>)>>

\* The two ways through leave_criteria to a verdict: decided before
\* extra_criteria, or by it.
Heads ==
    {<<(<<"whitelisted", "invoked">>)>>,
     <<(<<"whitelisted", "invoked">>), (<<"extra_criteria", "invoked">>)>>}

\* What follows a verdict of True: before_leave, the leave, after_leave.
LeaveLog(new) ==
    <<(<<"leave_criteria", "True">>), (<<"before_leave", new>>), (<<"leave", "called">>),
      (<<"leave", "ok">>), (<<"after_leave", new>>)>>

LeaveLogRaised(new) ==
    <<(<<"leave_criteria", "True">>), (<<"before_leave", new>>), (<<"leave", "called">>),
      (<<"leave", "raised">>)>>

StayLog == <<(<<"leave_criteria", "False">>)>>

\* Complete runs of `if await self.leave_criteria(guild): ...` that end
\* without an exception, and those that end with one.
CompleteRuns(new) == {h \o StayLog : h \in Heads} \cup {h \o LeaveLog(new) : h \in Heads}

RaisedRuns(new) ==
    {h \o LeaveLogRaised(new) : h \in Heads}
        \cup {<<(<<"whitelisted", "invoked">>), (<<"leave_criteria", "raise">>)>>}

\* The await a run with log l is suspended at (or how it ended), by the
\* last entry of the log.
PcOf(l) ==
    LET e == l[Len(l)]
    IN  CASE e = <<"leave_criteria", "False">> -> "done"
          [] e = <<"leave_criteria", "raise">> -> "raised"
          [] e = <<"leave", "called">> -> "leave"
          [] e = <<"leave", "raised">> -> "raised"
          [] OTHER -> e[1]

\* ---------------------------------------------------------------- C2
\* C2: when the listener runs for a guild and len(self.bot.guilds), the new
\* guild included, is >= max_guilds, it invokes on_guild_limit_reached, then
\* guild.leave(), then after_leave(guild, new=True), in that order, and for
\* that guild it never invokes leave_criteria, whitelisted, extra_criteria
\* or before_leave.  (after_leave follows a leave that succeeds.)
C2_CapLogs ==
    \A g \in Guilds :
        LET l == join[g].log
        IN  (l # <<>> /\ l[1][1] = "on_guild_limit_reached") =>
                /\ IsPrefix(l, CapLog) \/ l = CapLogRaised
                /\ join[g].pc \in {"on_guild_limit_reached", "leave", "after_leave",
                                   "done", "raised"}
                /\ join[g].pc = "done" => l = CapLog
                /\ join[g].pc = "raised" <=> l = CapLogRaised
                /\ join[g].pc \notin {"done", "raised"} => join[g].pc = PcOf(l)

C2_CapTaken ==
    \A g \in Guilds :
        (/\ join[g].pc = "pending" /\ join'[g].pc # "pending"
         /\ Cardinality(BotGuilds) >= cfg.max_guilds) =>
            /\ join'[g].pc = "on_guild_limit_reached"
            /\ join'[g].log = <<(<<"on_guild_limit_reached", "invoked">>)>>

\* C2, over every behaviour: the logs of the cap path in every state, and
\* the cap test at every start of a listener.
C2_CapPath == [](C2_CapLogs) /\ [][C2_CapTaken]_vars

\* A listener that ran the whole cap path, with exactly max_guilds guilds
\* in the cache when it ended.
C2_Witness ==
    \E g \in Guilds :
        /\ join[g].pc = "done" /\ join[g].log = CapLog
        /\ member[g] = "leaving"
        /\ Cardinality(BotGuilds) = cfg.max_guilds

\* ---------------------------------------------------------------- C8
\* C8: when the listener runs for a guild and the guild count is below
\* max_guilds, leave_criteria is evaluated; if it returns true the listener
\* invokes before_leave(guild, new=True), then guild.leave(), then
\* after_leave(guild, new=True), in that order (after_leave after a leave
\* that succeeds); if it returns false the listener invokes no hook and no
\* leave and is over, and no step of it changes the guild's membership.
C8_CriteriaLogs ==
    \A g \in Guilds :
        LET l == join[g].log
        IN  (l # <<>> /\ l[1][1] # "on_guild_limit_reached") =>
                /\ \E r \in CompleteRuns("new=True") \cup RaisedRuns("new=True") : IsPrefix(l, r)
                /\ join[g].pc = PcOf(l) \/ (join[g].pc = "done" /\ PcOf(l) = "after_leave")
                /\ join[g].pc = "done" => l \in CompleteRuns("new=True")
                /\ join[g].pc = "raised" <=> l \in RaisedRuns("new=True")

C8_CriteriaTaken ==
    \A g \in Guilds :
        /\ (/\ join[g].pc = "pending" /\ join'[g].pc # "pending"
            /\ Cardinality(BotGuilds) < cfg.max_guilds) =>
               join'[g].log = <<(<<"whitelisted", "invoked">>)>>
        /\ (join'[g] # join[g] /\ member[g] = "joined" /\ member'[g] # "joined") =>
               /\ join[g].pc = "leave"
               /\ \/ <<"before_leave", "new=True">> \in Range(join[g].log)
                  \/ <<"on_guild_limit_reached", "invoked">> \in Range(join[g].log)

\* C8, over every behaviour: the logs of the criteria path in every state,
\* and the listener's steps.
C8_CriteriaPath == [](C8_CriteriaLogs) /\ [][C8_CriteriaTaken]_vars

\* Two listeners below the cap: one left its guild by the criteria, the
\* other found leave_criteria false and its guild is still joined.
C8_Witness ==
    \E g, h \in Guilds :
        /\ join[g].pc = "done" /\ join[g].log \in {x \o LeaveLog("new=True") : x \in Heads}
        /\ member[g] \in {"leaving", "left"}
        /\ join[h].pc = "done" /\ join[h].log \in {x \o StayLog : x \in Heads}
        /\ member[h] = "joined"

\* ---------------------------------------------------------------- C9
\* The awaits inside one iteration of the loop.
Running == {"whitelisted", "extra_criteria", "before_leave", "leave", "after_leave"}

Untag(log) == [i \in DOMAIN log |-> <<log[i][1], log[i][2]>>]

\* C9: a pass of the loop takes every guild of the cache as enumerated when
\* the pass begins, one at a time in that order; for a guild whose
\* leave_criteria is true it invokes before_leave(guild, new=False),
\* guild.leave(), after_leave(guild, new=False) in that order; and it moves
\* to the next guild (or ends the pass) only from the end of the current
\* guild's iteration: after after_leave has returned, or when leave_criteria
\* returned false.  While the loop is suspended in a hook or in the leave,
\* the pass stays at the same guild.  (A pass that raises or is cancelled
\* stops where it is.)
C9_SweepLogs ==
    IF sweep.pc \in Running \cup {"raised"}
    THEN /\ sweep.idx \in 1..Len(sweep.list)
         /\ sweep.visited = SubSeq(sweep.list, 1, sweep.idx - 1)
         /\ \A i, j \in DOMAIN sweep.list : i < j => sweep.list[i] < sweep.list[j]
         /\ \A e \in Range(sweep.log) : e[3] = sweep.list[sweep.idx]
         /\ \E r \in CompleteRuns("new=False") \cup RaisedRuns("new=False") :
              IsPrefix(Untag(sweep.log), r)
         /\ sweep.log # <<>> /\ sweep.pc = PcOf(Untag(sweep.log))
    ELSE sweep = SweepIdle(sweep.pc)

C9_SweepSteps ==
    /\ (sweep.pc = "waiting" /\ sweep'.pc \in Running) =>
          /\ Range(sweep'.list) = BotGuilds
          /\ Len(sweep'.list) = Cardinality(BotGuilds)
          /\ sweep'.idx = 1
    /\ (sweep.pc \in Running /\ sweep'.pc \in Running \cup {"raised"}) =>
          /\ sweep'.list = sweep.list
          /\ sweep'.idx \in {sweep.idx, sweep.idx + 1}
          /\ sweep'.idx = sweep.idx + 1 =>
                /\ sweep.pc \in {"after_leave", "whitelisted", "extra_criteria"}
                /\ sweep'.pc = "whitelisted"
          /\ sweep'.idx = sweep.idx => IsPrefix(sweep.log, sweep'.log)
    /\ (sweep.pc \in Running /\ sweep'.pc = "waiting") =>
          /\ sweep.idx = Len(sweep.list)
          /\ sweep.pc \in {"after_leave", "whitelisted", "extra_criteria"}

\* C9, over every behaviour: the pass's position and log in every state,
\* and the loop's steps.
C9_SweepSequential == [](C9_SweepLogs) /\ [][C9_SweepSteps]_vars

\* Two guilds joined before the cog was loaded (no listener ran for them):
\* the pass has left the first and is inside after_leave of the second.
C9_Witness ==
    /\ sweep.pc = "after_leave" /\ sweep.idx = 2
    /\ sweep.log \in {Tag(h \o LeaveLog("new=False"), sweep.list[2]) : h \in Heads}
    /\ \A i \in 1..2 : join[sweep.list[i]].pc = "none"
    /\ member[sweep.list[1]] \in {"leaving", "left"}
    /\ member[sweep.list[2]] = "leaving"

\* --------------------------------------------------------------- C10
\* C10: the loop never applies the cap: it never invokes
\* on_guild_limit_reached, it calls guild.leave() only for a guild whose
\* leave_criteria returned true, and no step of it takes the bot out of a
\* guild whose leave_criteria did not return true, whatever the guild count.
C10_SweepLogs ==
    /\ \A e \in Range(sweep.log) : e[1] # "on_guild_limit_reached"
    /\ \A g \in Guilds :
         <<"leave", "called", g>> \in Range(sweep.log) =>
             <<"leave_criteria", "True", g>> \in Range(sweep.log)

C10_SweepSteps ==
    \A g \in Guilds :
        (sweep' # sweep /\ member[g] = "joined" /\ member'[g] # "joined") =>
            /\ sweep.pc = "leave" /\ g = sweep.list[sweep.idx]
            /\ <<"leave_criteria", "True", g>> \in Range(sweep.log)

\* C10, over every behaviour: the loop's log in every state, and the steps
\* of the loop that end a membership.
C10_SweepNoCap == [](C10_SweepLogs) /\ [][C10_SweepSteps]_vars

\* The pass found leave_criteria false for its first guild and went on to
\* the second with the guild count at or above max_guilds: the first guild
\* is still joined.
C10_Witness ==
    /\ sweep.pc \in Running /\ sweep.idx = 2
    /\ member[sweep.list[1]] = "joined"
    /\ Cardinality(BotGuilds) >= cfg.max_guilds
    /\ Cardinality({g \in Guilds : member[g] = "joined"}) >= cfg.max_guilds

\* ---------------------------------------------------------------------
\* The last entry of the log of the loop's current iteration.
SweepLast == sweep.log[Len(sweep.log)]

\* The loop task ended because guild.leave() failed.
SweepLeaveFailed ==
    /\ sweep.pc = "raised"
    /\ SweepLast = <<"leave", "raised", SweepGuild>>

\* C11 as stated: a failure of the leave action for one guild of a pass
\* does not halt the pass, its remaining guilds are still evaluated.  As a
\* state predicate: the loop is never found ended by a failed leave with
\* guilds of the pass's enumeration still unvisited.
C11_SweepGoesOn == SweepLeaveFailed => sweep.idx = Len(sweep.list)

\* C11 (amended): a failure of the leave action for one guild ends the
\* pass and the loop task at that guild: the failed guild.leave() leaves
\* the task ended with the position and the visited guilds as they were,
\* and from then on the task takes no step, so that the remaining guilds
\* of the pass are not evaluated.
C11_FailureStep ==
    (sweep.pc = "leave" /\ loaded' = loaded /\ member' = member /\ sweep' # sweep)
        => /\ sweep' = [sweep EXCEPT
                 !.pc = "raised",
                 !.log = Append(@, <<"leave", "raised", SweepGuild>>)]

C11_RaisedIsFinal == sweep.pc = "raised" => sweep' = sweep

C11_FailureEndsPass == [][C11_FailureStep /\ C11_RaisedIsFinal]_vars

\* The loop ended by a failed leave of the first of two guilds, the second
\* still joined and never evaluated in the pass.
C11_Witness ==
    /\ SweepLeaveFailed
    /\ Len(sweep.list) = 2
    /\ sweep.idx = 1
    /\ sweep.visited = <<>>
    /\ member[sweep.list[2]] = "joined"
\* ---------------------------------------------------------------------
\* The guilds the bot is a member of.
Joined == {g \in Guilds : member[g] = "joined"}

\* The joined guilds whose join was not delivered to the listener (the bot
\* was in them before the cog was loaded, or was added after its unload).
Undelivered == {g \in Joined : join[g].pc = "none"}

\* C12: starting from fewer than max_guilds joined guilds, the bot is at
\* no time a member of more than max_guilds + 1 guilds, however quickly
\* the joins follow one another.
C12_AtMostOneOver ==
    Cardinality(Undelivered) < cfg.max_guilds
        => Cardinality(Joined) <= cfg.max_guilds + 1
\* ---------------------------------------------------------------------
\* C14: for every configuration and every snapshot, with hooks that do
\* not raise, leave_criteria ends with a boolean verdict: no built-in
\* check raises, the bot-ratio check with member_count = 0 included.
C14_NeverRaises ==
    /\ ev.pc # "raised"
    /\ \A e \in Range(ev.trace) : e[2] # "raise"
    /\ ev.pc = "return" => ev.result \in {"True", "False"}
\* ---------------------------------------------------------------------
\* The loop task exists and has not ended: between passes or inside one.
SweepAlive == sweep.pc \in Running \cup {"waiting"}

\* C15: a pass of the loop begins only in a loaded cog with a frequency.
\* Without a frequency the loop task is never touched (cog_load does not
\* start it, cog_unload does not cancel it, no pass begins); before
\* cog_load nothing runs; after cog_unload the task is cancelled or had
\* ended, and it takes no further step.
C15_LoopState ==
    /\ SweepAlive => loaded = "loaded" /\ cfg.frequency # None
    /\ cfg.frequency = None => sweep = SweepIdle("unstarted")
    /\ loaded = "init" => sweep = SweepIdle("unstarted")
    /\ (loaded = "unloaded" /\ cfg.frequency # None)
           => sweep = SweepIdle("cancelled") \/ sweep.pc = "raised"

C15_PassBegins ==
    /\ (sweep.list = <<>> /\ sweep'.list # <<>>)
           => loaded = "loaded" /\ loaded' = "loaded" /\ cfg.frequency # None
    /\ loaded = "unloaded" => sweep' = sweep

C15_SweepOnlyWhileLoaded == [](C15_LoopState) /\ [][C15_PassBegins]_vars

\* The cog unloaded after the loop has left a guild (one whose join no
\* listener saw): the task is cancelled while the bot is still in a guild.
C15_Witness ==
    /\ loaded = "unloaded"
    /\ sweep = SweepIdle("cancelled")
    /\ \E g \in Guilds : member[g] \in {"leaving", "left"} /\ join[g].pc = "none"
    /\ Joined # {}
\* ---------------------------------------------------------------------
\* How often entry e occurs in log l.
Count(l, e) == Cardinality({i \in DOMAIN l : l[i] = e})

\* A log l (of a listener, or of a loop iteration with its tags removed)
\* that records a failed guild.leave(): the failure is its last entry, the
\* leave was called once, after_leave was not invoked, and the hook invoked
\* before the leave is on record.
FailedLeaveLog(l) ==
    /\ l[Len(l)] = <<"leave", "raised">>
    /\ Count(l, <<"leave", "raised">>) = 1
    /\ Count(l, <<"leave", "called">>) = 1
    /\ \A i \in DOMAIN l : l[i][1] # "after_leave"
    /\ l[Len(l) - 1] = <<"leave", "called">>
    /\ l[Len(l) - 2][1] \in {"on_guild_limit_reached", "before_leave"}

\* C16: a failed leave, in the listener (cap path or criteria path) or in
\* the loop, is not retried, is not followed by after_leave, and ends the
\* task with the exception; what the task logged before it stays.
C16_FailedLogs ==
    /\ \A g \in Guilds :
         <<"leave", "raised">> \in Range(join[g].log)
             => join[g].pc = "raised" /\ FailedLeaveLog(join[g].log)
    /\ <<"leave", "raised">> \in Range(Untag(sweep.log))
             => sweep.pc = "raised" /\ FailedLeaveLog(Untag(sweep.log))

C16_FailureStep ==
    /\ \A g \in Guilds :
         /\ (join[g].pc = "leave" /\ join'[g] # join[g] /\ member'[g] = member[g])
               => join'[g] = [pc |-> "raised",
                              log |-> Append(join[g].log, <<"leave", "raised">>)]
         /\ join[g].pc = "raised" => join'[g] = join[g]
    /\ (sweep.pc = "leave" /\ sweep' # sweep /\ loaded' = loaded /\ member' = member)
           => sweep'.pc = "raised" /\ IsPrefix(sweep.log, sweep'.log)
    /\ sweep.pc = "raised" => sweep'.pc = "raised" /\ sweep'.log = sweep.log

C16_LeaveFailurePropagates == [](C16_FailedLogs) /\ [][C16_FailureStep]_vars

\* A failed leave on each path: one listener on the cap path, another on
\* the criteria path, and the loop.
C16_Witness ==
    /\ \E g \in Guilds :
         /\ join[g].pc = "raised"
         /\ join[g].log = CapLogRaised
    /\ \E g \in Guilds :
         /\ join[g].pc = "raised"
         /\ <<"before_leave", "new=True">> \in Range(join[g].log)
         /\ <<"leave", "raised">> \in Range(join[g].log)
    /\ SweepLeaveFailed
\* ---------------------------------------------------------------------
\* The calls of guild.leave() and of before_leave for guild g on record:
\* in the guild's listener and in the loop's current iteration.
LeaveCalls(g) ==
    Count(join[g].log, <<"leave", "called">>) + Count(sweep.log, <<"leave", "called", g>>)

BeforeLeaveCalls(g) ==
    Count(join[g].log, <<"before_leave", "new=True">>)
        + Count(sweep.log, <<"before_leave", "new=False", g>>)

\* C17: for a guild the bot has left, guild.leave() was called once and
\* before_leave at most once, by the guild's listener or by the loop but
\* not by both, however the two tasks interleave.
C17_LeftAtMostOnce ==
    \A g \in Guilds :
        member[g] \in {"leaving", "left"}
            => LeaveCalls(g) <= 1 /\ BeforeLeaveCalls(g) <= 1
\* ---------------------------------------------------------------------
\* C18: a guild the whitelisted hook always answers True for is left by
\* the cap path of its listener only.  Its listener never gets a verdict
\* of True and never calls before_leave; it calls guild.leave() only after
\* on_guild_limit_reached; the loop's iteration for the guild ends at the
\* return of whitelisted.  On the cap path the guild is left, whitelisted
\* or not: at max_guilds the listener goes to on_guild_limit_reached
\* without calling whitelisted.
C18_WhitelistedLogs ==
    \A g \in Whitelist :
        /\ <<"leave_criteria", "True">> \notin Range(join[g].log)
        /\ <<"before_leave", "new=True">> \notin Range(join[g].log)
        /\ <<"leave", "called">> \in Range(join[g].log)
              => /\ join[g].log[1] = <<"on_guild_limit_reached", "invoked">>
                 /\ <<"whitelisted", "invoked">> \notin Range(join[g].log)
        /\ (sweep.pc \in Running /\ SweepGuild = g) => sweep.pc = "whitelisted"

C18_WhitelistedSteps ==
    \A g \in Whitelist :
        /\ (member[g] = "joined" /\ member'[g] # "joined")
              => /\ join[g].pc = "leave" /\ join'[g].pc = "after_leave"
                 /\ IsPrefix(<<(<<"on_guild_limit_reached", "invoked">>),
                                (<<"leave", "called">>)>>, join[g].log)
                 /\ sweep' = sweep
        /\ (join[g].pc = "pending" /\ join'[g] # join[g]
                /\ Cardinality(BotGuilds) >= cfg.max_guilds)
              => join'[g].pc = "on_guild_limit_reached"

C18_WhitelistedOnlyCap == [](C18_WhitelistedLogs) /\ [][C18_WhitelistedSteps]_vars

\* The whitelisted guild left by the cap path of its listener, after the
\* loop has evaluated it and passed on, the other guild left by the loop.
C18_Witness ==
    \E g \in Whitelist :
        /\ member[g] \in {"leaving", "left"}
        /\ join[g].pc = "done"
        /\ join[g].log = CapLog
        /\ \E h \in Guilds \ Whitelist :
              /\ sweep.pc = "after_leave"
              /\ SweepGuild = h
              /\ sweep.visited = <<g>>
\* ---------------------------------------------------------------------
\* The cog is loaded, every listener that was started has returned without
\* an exception, and every guild.leave() has taken effect (no left guild
\* is still in the cache).
AtRest ==
    /\ loaded = "loaded"
    /\ \A g \in Guilds : join[g].pc \in {"none", "done"}
    /\ \A g \in Guilds : member[g] # "leaving"

\* C19: with fewer than max_guilds guilds joined when the cog was loaded,
\* whenever the listeners are at rest the bot is in fewer than max_guilds
\* guilds, whatever the order of the joins and of the listeners' steps.
C19_BelowCapAtRest ==
    (AtRest /\ Cardinality(Undelivered) < cfg.max_guilds)
        => Cardinality(BotGuilds) < cfg.max_guilds

\* Three joins delivered and handled: one guild stays, the bot is at
\* max_guilds - 1, and two guilds were left by the cap path.
C19_Witness ==
    /\ AtRest
    /\ \A g \in Guilds : join[g].pc = "done"
    /\ Cardinality(BotGuilds) = cfg.max_guilds - 1
    /\ Cardinality(Joined) = 1
    /\ Cardinality({g \in Guilds : member[g] = "left" /\ join[g].log = CapLog}) = 2
\* ---------------------------------------------------------------------
\* C20: with a frequency and the cog loaded for good, a joined guild that
\* is not whitelisted and meets a built-in criterion at every evaluation
\* is eventually left, provided the loop task never ends with an
\* exception (no hook and no guild.leave() of the loop fails).
C20_EventuallyLeft ==
    [](sweep.pc # "raised")
        => \A g \in Rejected :
               (loaded = "loaded" /\ member[g] = "joined") ~> (member[g] # "joined")

\* The rejected guild, joined before the cog was loaded (no listener saw
\* it), left by the loop.
C20_Witness ==
    \E g \in Rejected :
        /\ join[g].pc = "none"
        /\ member[g] = "leaving"
        /\ sweep.pc = "after_leave"
        /\ SweepGuild = g
=============================================================================
